---- MODULE Spec2Model ----
(***************************************************************************)
(* Model of json-pdf.py: the conversion of a Telegram JSON export into the *)
(* ordered list of layout blocks ("story") handed to the PDF renderer, and *)
(* the pipeline around it (dispatch on the chat type, existence check of   *)
(* the destination, build, rename, copy).                                  *)
(*                                                                         *)
(* Strings are sequences of one-character strings, so that upper(),        *)
(* lower(), replace() and join() are computed character by character.      *)
(***************************************************************************)
EXTENDS Integers, Sequences, FiniteSets, TLC

VARIABLES data, pc, story, outcome, files, builds, writes, after

vars == <<data, pc, story, outcome, files, builds, writes, after>>

-----------------------------------------------------------------------------
(* Bounds of the model *)

MaxMsgs == 3

-----------------------------------------------------------------------------
(* Python string primitives *)

LowerLetters == <<"a","b","c","d","e","f","g","h","i","j","k","l","m",
                  "n","o","p","q","r","s","t","u","v","w","x","y","z">>
UpperLetters == <<"A","B","C","D","E","F","G","H","I","J","K","L","M",
                  "N","O","P","Q","R","S","T","U","V","W","X","Y","Z">>

\* One code point standing for a pictographic (emoji) character.
EmojiChars == {"U+1F600"}

UpperChar(c) ==
    IF \E i \in 1..Len(LowerLetters) : LowerLetters[i] = c
    THEN UpperLetters[CHOOSE i \in 1..Len(LowerLetters) : LowerLetters[i] = c]
    ELSE c

LowerChar(c) ==
    IF \E i \in 1..Len(UpperLetters) : UpperLetters[i] = c
    THEN LowerLetters[CHOOSE i \in 1..Len(UpperLetters) : UpperLetters[i] = c]
    ELSE c

\* str.upper()
Upper(s) == [i \in 1..Len(s) |-> UpperChar(s[i])]

\* str.lower()
Lower(s) == [i \in 1..Len(s) |-> LowerChar(s[i])]

\* sep.join(list)
RECURSIVE Join(_, _)
Join(sep, list) ==
    IF list = <<>> THEN <<>>
    ELSE IF Len(list) = 1 THEN list[1]
    ELSE list[1] \o sep \o Join(sep, Tail(list))

\* s.replace(c, r) for a one-character c, and the same for a set of characters
RECURSIVE ReplaceChars(_, _, _)
ReplaceChars(s, cs, r) ==
    IF s = <<>> THEN <<>>
    ELSE (IF Head(s) \in cs THEN r ELSE <<Head(s)>>) \o ReplaceChars(Tail(s), cs, r)

\* s[1:]
Slice1(s) == IF s = <<>> THEN <<>> ELSE Tail(s)

-----------------------------------------------------------------------------
(* String literals of the source *)

S_BR      == <<"<","b","r","/",">","<","b","r","/",">">>
S_EMOJI   == <<"(","E","M","O","J","I",")">>
S_INVITED == <<" ","i","n","v","i","t","e","d"," ">>
S_JOINED  == <<" ","j","o","i","n","e","d">>
S_PHOTO   == <<"(","P","H","O","T","O",")"," ">>
S_VIDEO   == <<"(","V","I","D","E","O",")"," ">>
S_AUDIO   == <<"(","A","U","D","I","O",")"," ">>
\* "-" stands for the em dash of the date line
S_DASH_L  == <<"-"," ">>
S_DASH_R  == <<" ","-">>
S_A_HREF  == <<"<","a"," ","h","r","e","f","=","\"">>
S_TME     == <<"h","t","t","p","s",":","/","/","t",".","m","e","/">>
S_A_ATTRS == <<"\""," ","c","o","l","o","r","=","g","r","e","y"," ",
               "u","n","d","e","r","l","i","n","e","=","T","r","u","e",">">>
S_A_END   == <<"<","/","a",">">>

media_types ==
    [ voice_message |-> <<"(","V","O","I","C","E"," ","M","E","S","S","A","G","E",")">>,
      video_message |-> <<"(","V","I","D","E","O"," ","M","E","S","S","A","G","E",")">>,
      video         |-> <<"(","V","I","D","E","O",")">>,
      photo         |-> <<"(","P","H","O","T","O",")">>,
      sticker       |-> <<"(","S","T","I","C","K","E","R",")">>,
      other         |-> <<"(","O","T","H","E","R",")">>,
      call          |-> <<"(","C","A","L","L",")">> ]

-----------------------------------------------------------------------------
(* JsonPdf helpers *)

Digits == <<"1","2","3","4","5","6","7","8","9">>

\* A date is [day, time]: the calendar day (a day of January 2023) and the
\* time of day of the ISO-8601 string.  strftime('%e %B %Y') keeps the day.
format_date_inside(date) ==
    <<" ", Digits[date.day], " ", "J","a","n","u","a","r","y", " ", "2","0","2","3">>

\* strftime("%d.%m.%Y")
format_date_name(date) ==
    <<"0", Digits[date.day], ".", "0","1", ".", "2","0","2","3">>

\* Python's < on two ISO-8601 strings of the same shape: lexicographic
IsoLess(a, b) == a.day < b.day \/ (a.day = b.day /\ a.time < b.time)

\* The loop of get_time_borders from message i on; None is <<>>.
RECURSIVE TimeBordersFrom(_, _, _, _)
TimeBordersFrom(messages, i, earliest, latest) ==
    IF i > Len(messages) THEN <<earliest, latest>>
    ELSE LET current == messages[i].date
             e == IF earliest = <<>> \/ IsoLess(current, earliest[1])
                  THEN <<current>> ELSE earliest
             l == IF latest = <<>> \/ IsoLess(latest[1], current)
                  THEN <<current>> ELSE latest
         IN  TimeBordersFrom(messages, i + 1, e, l)

get_time_borders(input_data) == TimeBordersFrom(input_data.messages, 1, <<>>, <<>>)

check_message(message) ==
    ReplaceChars(ReplaceChars(message, {"\n"}, S_BR), EmojiChars, S_EMOJI)

\* style(message, type): a Paragraph of the text under the style chosen by type
StyleOf(type) ==
    CASE type = "text"                -> "TextStyle"
      [] type = "title"               -> "TitleStyle"
      [] type = "period"              -> "PeriodStyle"
      [] type = "name"                -> "NameStyle"
      [] type = "self_message"        -> "SelfMessageStyle"
      [] type = "partner_message"     -> "PartnerMessageStyle"
      [] type = "date_style"          -> "DateStyle"
      [] type = "actor_style"         -> "ActorStyle"
      [] type = "actor_message_style" -> "ActorMessageStyle"
      [] OTHER                        -> "TextStyle"

style(message, type) == [style |-> StyleOf(type), text |-> message]

\* check_if_pdf_exists asked about the path without its ".pdf" extension,
\* a name no step ever creates
check_if_pdf_exists_no_ext(fs, path) ==
    LET stem == SubSeq(path, 1, Len(path) - 4)
    IN  stem \notin DOMAIN fs \/ fs[stem] = "absent"

\* not os.path.exists(path)
check_if_pdf_exists(fs, path) == fs[path] = "absent"

-----------------------------------------------------------------------------
(* Story blocks.  A story entry is the flowable appended by the source     *)
(* (par: the Paragraph's style and text; Spacer, HRFlowable and None have  *)
(* no text) with two labels used to state properties: kind, the layout     *)
(* block the entry stands for, and of, the index of the message whose      *)
(* iteration appended it (0 for the heading).                              *)

NoPar == [style |-> "", text |-> <<>>]

Entry(kind, i, par) == [kind |-> kind, of |-> i, par |-> par]

Spacer(i)     == Entry("Spacer", i, NoPar)
HRFlowable(i) == Entry("HRFlowable", i, NoPar)

\* Lines 199-201: title, Spacer, period label
PersonalHeading(input_file, period) ==
    << Entry("Title", 0, style(input_file.name, "title")),
       Spacer(0),
       Entry("PeriodLabel", 0, style(period, "period")) >>

\* Lines 292-294: story.append(story.append(title)) appends the title and
\* then the None that the inner append returns.
GroupHeading(input_file, period) ==
    << Entry("Title", 0, style(input_file.name, "title")),
       Entry("None", 0, NoPar),
       Spacer(0),
       Entry("PeriodLabel", 0, style(period, "period")) >>

time_period_inside(input_file) ==
    LET b == get_time_borders(input_file)
    IN  format_date_inside(b[1][1]) \o <<" ", "-", " ">> \o format_date_inside(b[2][1])

time_period_name(input_file) ==
    LET b == get_time_borders(input_file)
    IN  format_date_name(b[1][1]) \o <<" ", "-", " ">> \o format_date_name(b[2][1])

\* DateStep without the assignment to previous_date of line 217 / 311
DateStepStale(m, i, st) ==
    IF <<format_date_inside(m.date)>> # st.previous_date
    THEN [st EXCEPT
            !.story = @ \o << Spacer(i), HRFlowable(i),
                              Entry("DateSeparator", i,
                                    style(S_DASH_L \o format_date_inside(m.date) \o S_DASH_R,
                                          "date_style")),
                              HRFlowable(i) >>]
    ELSE st

\* Lines 204-217 and 298-311: the date separator
DateStep(m, i, st) ==
    IF <<format_date_inside(m.date)>> # st.previous_date
    THEN [st EXCEPT
            !.story = @ \o << Spacer(i), HRFlowable(i),
                              Entry("DateSeparator", i,
                                    style(S_DASH_L \o format_date_inside(m.date) \o S_DASH_R,
                                          "date_style")),
                              HRFlowable(i) >>,
            !.previous_date = <<format_date_inside(m.date)>>]
    ELSE st

\* Lines 223-239 and 351-367: the concatenation of the parts of a list text
PartMarkup(part) ==
    IF part.dict /\ part.type = "mention"
    THEN S_A_HREF \o S_TME \o Lower(Slice1(part.text)) \o S_A_ATTRS \o part.text \o S_A_END
    ELSE IF part.dict /\ part.type = "link"
    THEN S_A_HREF \o part.text \o S_A_ATTRS \o part.text \o S_A_END
    ELSE IF part.dict /\ part.type = "text_link"
    THEN S_A_HREF \o part.href \o S_A_ATTRS \o part.text \o S_A_END
    ELSE IF part.dict
    THEN <<>>
    ELSE part.text

RECURSIVE message_result(_)
message_result(parts) ==
    IF parts = <<>> THEN <<>> ELSE PartMarkup(Head(parts)) \o message_result(Tail(parts))

\* The text handed to check_message by the message-body code
BodyText(m) == IF m.text.isList THEN message_result(m.text.parts) ELSE m.text.str

-----------------------------------------------------------------------------
(* PersonalChatJsonPdf *)

\* choose_role_tag with the two styles exchanged
choose_role_tag_swapped(input_file, message, name) ==
    IF name = input_file.name
    THEN style(message, "self_message")
    ELSE style(message, "partner_message")

choose_role_tag(input_file, message, name) ==
    IF name = input_file.name
    THEN style(message, "partner_message")
    ELSE style(message, "self_message")

Raise(st) == [st EXCEPT !.err = TRUE]

\* Lines 219-220: the phone_call placeholder
PersonalCall(input_file, m, i, st) ==
    IF m.type # "service" THEN st
    ELSE IF m.action = <<>> THEN Raise(st)
    ELSE IF m.action[1] # "phone_call" THEN st
    ELSE IF m.actor = <<>> THEN Raise(st)
    ELSE [st EXCEPT !.story =
            Append(@, Entry("MessageBody", i,
                            choose_role_tag(input_file, media_types["call"], m.actor[1])))]

\* Lines 222-250: the message body, tagged through 'from', or through
\* 'actor' when 'from' raises KeyError
PersonalBody(input_file, m, i, st) ==
    IF st.err THEN st
    ELSE IF m.from # <<>>
    THEN [st EXCEPT !.story =
            Append(@, Entry("MessageBody", i,
                            choose_role_tag(input_file, check_message(BodyText(m)), m.from[1])))]
    ELSE IF m.actor # <<>>
    THEN [st EXCEPT !.story =
            Append(@, Entry("MessageBody", i,
                            choose_role_tag(input_file, check_message(BodyText(m)), m.actor[1])))]
    ELSE Raise(st)

\* One iteration of the loop of lines 203-250
PersonalMessage(input_file, i, st) ==
    LET m == input_file.messages[i]
    IN  PersonalBody(input_file, m, i, PersonalCall(input_file, m, i, DateStep(m, i, st)))

RECURSIVE PersonalLoop(_, _, _)
PersonalLoop(input_file, i, st) ==
    IF i > Len(input_file.messages) \/ st.err THEN st
    ELSE PersonalLoop(input_file, i + 1, PersonalMessage(input_file, i, st))

\* Lines 190-250: the story of PersonalChatJsonPdf.make_pdf
PersonalStory(input_file) ==
    PersonalLoop(input_file, 1,
                 [story |-> PersonalHeading(input_file, time_period_inside(input_file)),
                  previous_date |-> <<>>, previous_actor |-> <<>>, err |-> FALSE])

-----------------------------------------------------------------------------
(* PrivateGroupJsonPdf *)

\* Lines 316-320: the invite / create notice
InviteNotice(m) ==
    LET invites_members == m.members[1]
        edited_invites_members == Join(Upper(<<",">>), invites_members)
    IN  style(check_message(Upper(m.actor[1]) \o S_INVITED \o edited_invites_members),
              "actor_style")

\* ActorStep without the assignment to previous_actor of line 328 / 333
ActorStepNoUpdate(name, i, st) ==
    IF <<name>> # st.previous_actor
    THEN [st EXCEPT
            !.story = Append(@, Entry("ActorHeader", i,
                                      style(check_message(Upper(name)), "actor_style")))]
    ELSE st

\* Lines 326-328 and 331-333: the actor header, emitted when the actor changes
ActorStep(name, i, st) ==
    IF <<name>> # st.previous_actor
    THEN [st EXCEPT
            !.story = Append(@, Entry("ActorHeader", i,
                                      style(check_message(Upper(name)), "actor_style"))),
            !.previous_actor = <<name>>]
    ELSE st

\* Lines 313-333
GroupService(m, i, st) ==
    IF m.type = "service" /\ m.action = <<>> THEN Raise(st)
    ELSE IF m.type = "service" /\ m.action[1] \in {"invite_members", "create_group"}
    THEN IF m.members = <<>> \/ m.actor = <<>> THEN Raise(st)
         ELSE [st EXCEPT !.story = Append(@, Entry("ServiceNotice", i, InviteNotice(m)))]
    ELSE IF m.type = "service" /\ m.action[1] = "join_group_by_link"
    THEN IF m.actor = <<>> THEN Raise(st)
         ELSE [st EXCEPT !.story =
                 Append(@, Entry("ServiceNotice", i,
                                 style(Upper(m.actor[1]) \o S_JOINED, "actor_style")))]
    ELSE IF m.actor # <<>> THEN ActorStep(m.actor[1], i, st)
    ELSE IF m.from # <<>> THEN ActorStep(m.from[1], i, st)
    ELSE Raise(st)

\* str() of a text inside an f-string: the string itself; for a list, the
\* bracketed repr of its parts (dict parts abbreviated to their markup).
RECURSIVE PyStrParts(_)
PyStrParts(parts) ==
    IF parts = <<>> THEN <<>>
    ELSE <<"'">> \o PartMarkup(Head(parts)) \o <<"'">>
         \o (IF Len(parts) > 1 THEN <<",", " ">> ELSE <<>>) \o PyStrParts(Tail(parts))

PyStr(text) == IF text.isList THEN <<"[">> \o PyStrParts(text.parts) \o <<"]">> ELSE text.str

\* Lines 338-348: the media prefix, chosen by the keys of the message
GroupMedia(m, i, st) ==
    IF "photo" \in m.keys
    THEN [st EXCEPT !.story =
            Append(@, Entry("MessageBody", i,
                            style(check_message(S_PHOTO \o PyStr(m.text)), "actor_message_style")))]
    ELSE IF "video" \in m.keys
    THEN [st EXCEPT !.story =
            Append(@, Entry("MessageBody", i,
                            style(check_message(S_VIDEO \o PyStr(m.text)), "actor_message_style")))]
    ELSE IF "audio" \in m.keys
    THEN [st EXCEPT !.story =
            Append(@, Entry("MessageBody", i,
                            style(check_message(S_AUDIO \o PyStr(m.text)), "actor_message_style")))]
    ELSE st

\* Lines 335-373: the message body, for type 'message' only
GroupBody(m, i, st) ==
    IF st.err \/ m.type # "message" THEN st
    ELSE [GroupMedia(m, i, st) EXCEPT !.story =
            Append(@, Entry("MessageBody", i,
                            style(check_message(BodyText(m)), "actor_message_style")))]

\* One iteration of the loop of lines 296-373
GroupMessage(input_file, i, st) ==
    LET m == input_file.messages[i]
    IN  GroupBody(m, i, GroupService(m, i, DateStep(m, i, st)))

RECURSIVE GroupLoop(_, _, _)
GroupLoop(input_file, i, st) ==
    IF i > Len(input_file.messages) \/ st.err THEN st
    ELSE GroupLoop(input_file, i + 1, GroupMessage(input_file, i, st))

\* Lines 282-373: the story of PrivateGroupJsonPdf.make_pdf
GroupStory(input_file) ==
    GroupLoop(input_file, 1,
              [story |-> GroupHeading(input_file, time_period_inside(input_file)),
               previous_date |-> <<>>, previous_actor |-> <<>>, err |-> FALSE])

-----------------------------------------------------------------------------
(* Exports: the JSON inputs the model draws from *)

Al == <<"A","l">>
Bo == <<"B","o">>
Cy == <<"C","y">>
Gr == <<"G","r">>

Date(d, t) == [day |-> d, time |-> t]

Plain(s)    == [isList |-> FALSE, str |-> s, parts |-> <<>>]
List(parts) == [isList |-> TRUE, str |-> <<>>, parts |-> parts]
StrPart(s)  == [dict |-> FALSE, type |-> "", text |-> s, href |-> <<>>]
DictPart(type, text, href) == [dict |-> TRUE, type |-> type, text |-> text, href |-> href]

T_hi    == Plain(<<"h","i">>)
T_empty == Plain(<<>>)
T_rich  == Plain(<<"o","\n","U+1F600">>)
T_list  == List(<< DictPart("mention", <<"@","A","l">>, <<>>),
                   StrPart(<<" ","h","i">>),
                   DictPart("bold", <<"b">>, <<>>) >>)

\* An absent key is <<>>, a present one <<value>>; keys holds which of the
\* attachment keys 'photo', 'video', 'audio' the message has.
Msg(date, type, action, from, actor, text, members, keys, media_type) ==
    [date |-> date, type |-> type, action |-> action, from |-> from, actor |-> actor,
     text |-> text, members |-> members, keys |-> keys, media_type |-> media_type]

Message(date, from, text) == Msg(date, "message", <<>>, <<from>>, <<>>, text, <<>>, {}, <<>>)
Service(date, action, actor, members) ==
    Msg(date, "service", <<action>>, <<>>, <<actor>>, T_empty, members, {}, <<>>)

PersonalMessages ==
    { Message(Date(1, 0), Al, T_hi),
      Message(Date(1, 1), Al, T_hi),
      Message(Date(2, 0), Al, T_hi),
      Message(Date(1, 1), Bo, T_list),
      Message(Date(2, 0), Bo, T_rich),
      Service(Date(2, 0), "phone_call", Al, <<>>),
      Service(Date(1, 0), "phone_call", Bo, <<>>),
      Service(Date(1, 1), "pin_message", Al, <<>>),
      Msg(Date(2, 1), "unsupported", <<>>, <<Bo>>, <<>>, T_rich, <<>>, {}, <<>>),
      Msg(Date(1, 0), "message", <<>>, <<>>, <<>>, T_hi, <<>>, {}, <<>>) }

GroupMessages ==
    { Message(Date(1, 0), Al, T_hi),
      Message(Date(1, 1), Al, T_hi),
      Message(Date(2, 0), Al, T_hi),
      Message(Date(1, 1), Bo, T_rich),
      Message(Date(2, 0), Bo, T_list),
      Service(Date(1, 0), "create_group", Cy, << <<Al, Bo>> >>),
      Service(Date(2, 0), "invite_members", Al, << <<Cy>> >>),
      Service(Date(2, 0), "join_group_by_link", Bo, <<>>),
      Service(Date(2, 0), "pin_message", Al, <<>>),
      Msg(Date(1, 1), "message", <<>>, <<Al>>, <<>>, T_empty, <<>>, {}, <<"sticker">>),
      Msg(Date(2, 0), "message", <<>>, <<Bo>>, <<>>, T_hi, <<>>, {"photo"}, <<>>),
      Msg(Date(1, 0), "unsupported", <<>>, <<Al>>, <<>>, T_hi, <<>>, {}, <<>>),
      Msg(Date(1, 0), "message", <<>>, <<>>, <<>>, T_hi, <<>>, {}, <<>>) }

SeqsUpTo(S, lo, hi) == UNION { [1..n -> S] : n \in lo..hi }

Export(type, name, messages) == [type |-> type, name |-> name, messages |-> messages]

\* The exports of the layout specification: every non-empty sequence of at
\* most max messages, in any order
LayoutExports(max) ==
    { Export("personal_chat", n, ms) : n \in {Al, Bo}, ms \in SeqsUpTo(PersonalMessages, 1, max) }
    \cup
    { Export("private_group", Gr, ms) : ms \in SeqsUpTo(GroupMessages, 1, max) }

\* The exports of the pipeline specification
RunExports ==
    { Export("personal_chat", Bo, ms) :
        ms \in { <<>>,
                 << Message(Date(1, 0), Al, T_hi), Service(Date(2, 0), "phone_call", Bo, <<>>) >>,
                 << Msg(Date(1, 0), "message", <<>>, <<>>, <<>>, T_hi, <<>>, {}, <<>>) >> } }
    \cup
    { Export("private_group", Gr, ms) :
        ms \in { << Message(Date(1, 0), Al, T_hi), Message(Date(1, 1), Bo, T_rich) >>,
                 << Service(Date(1, 0), "create_group", Cy, << <<Al, Bo>> >>) >> } }
    \cup
    { Export(t, Gr, << Message(Date(1, 0), Al, T_hi) >>) :
        t \in {"public_channel", "saved_messages"} }

-----------------------------------------------------------------------------
(* Destination paths *)

S_SAVE == <<"~","/","J","S","O","N","t","o","P","D","F","/">>
S_PDF  == <<".","p","d","f">>
S_JSON == <<".","j","s","o","n">>

\* Line 192 / 285
dir_path(d) == S_SAVE \o d.name \o <<"/">>

\* Line 195 / 288
pdf_output_path(d) == S_SAVE \o d.name \o <<"/">> \o d.name \o <<",", " ">> \o time_period_name(d) \o S_PDF

\* Line 254 / 377
new_name(d) == S_SAVE \o d.name \o <<"/">> \o d.name \o <<",", " ">> \o time_period_name(d) \o S_PDF

\* Line 258 / 381
json_path(d) == S_SAVE \o d.name \o <<"/">> \o d.name \o <<",", " ">> \o time_period_name(d) \o S_JSON

Paths(d) ==
    IF d.messages = <<>> THEN {dir_path(d)}
    ELSE {dir_path(d), pdf_output_path(d), new_name(d), json_path(d)}

\* os.rename(old, new)
os_rename(fs, old, new) ==
    IF old = new THEN fs
    ELSE [fs EXCEPT ![new] = fs[old], ![old] = "absent"]

-----------------------------------------------------------------------------
(* The pipeline: one process per invocation of the program on data *)

Procs == {1, 2}

Supported == {"personal_chat", "private_group"}

InitRun ==
    /\ pc = [p \in Procs |-> "start"]
    /\ story = [p \in Procs |-> <<>>]
    /\ outcome = [p \in Procs |-> "none"]
    /\ files = [f \in Paths(data) |-> "absent"]
    /\ builds = [p \in Procs |-> 0]
    /\ writes = [p \in Procs |-> 0]
    /\ after = [p \in Procs |-> FALSE]

Init == data \in RunExports /\ InitRun

InitLayout == data \in LayoutExports(MaxMsgs) /\ InitRun

Finish(p, result) ==
    /\ pc' = [pc EXCEPT ![p] = "done"]
    /\ outcome' = [outcome EXCEPT ![p] = result]

\* Lines 436-442 and 107-116: determine_type_of_chat and the constructor.
\* With no message the borders are None and format_date_inside raises.
Start(p) ==
    /\ pc[p] = "start"
    /\ after' = [after EXCEPT ![p] = \E q \in Procs : outcome[q] = "ready"]
    /\ IF data.type \in Supported
       THEN IF data.messages = <<>>
            THEN Finish(p, "error")
            ELSE pc' = [pc EXCEPT ![p] = "check"] /\ UNCHANGED outcome
       ELSE Finish(p, "ignored")
    /\ UNCHANGED <<data, story, files, builds, writes>>

\* Lines 189 / 281 and 270-272 / 393-395
Check(p) ==
    /\ pc[p] = "check"
    /\ IF check_if_pdf_exists(files, pdf_output_path(data))
       THEN pc' = [pc EXCEPT ![p] = "mkdir"] /\ UNCHANGED outcome
       ELSE Finish(p, "exists")
    /\ UNCHANGED <<data, story, files, builds, writes, after>>

\* Lines 192-193 / 285-286
Mkdir(p) ==
    /\ pc[p] = "mkdir"
    /\ files' = [files EXCEPT ![dir_path(data)] = "dir"]
    /\ writes' = [writes EXCEPT ![p] = @ + 1]
    /\ pc' = [pc EXCEPT ![p] = "layout"]
    /\ UNCHANGED <<data, story, outcome, builds, after>>

make_story(d) ==
    IF d.type = "personal_chat" THEN PersonalStory(d) ELSE GroupStory(d)

\* Lines 197-250 / 290-373
Layout(p) ==
    /\ pc[p] = "layout"
    /\ LET st == make_story(data)
       IN  IF st.err
           THEN Finish(p, "error") /\ UNCHANGED story
           ELSE /\ story' = [story EXCEPT ![p] = st.story]
                /\ pc' = [pc EXCEPT ![p] = "build"]
                /\ UNCHANGED outcome
    /\ UNCHANGED <<data, files, builds, writes, after>>

\* Lines 252 / 375: doc.build(story) writes the document at pdf_output_path
BuildOk(p) ==
    /\ pc[p] = "build"
    /\ builds' = [builds EXCEPT ![p] = @ + 1]
    /\ files' = [files EXCEPT ![pdf_output_path(data)] = "complete"]
    /\ writes' = [writes EXCEPT ![p] = @ + 1]
    /\ pc' = [pc EXCEPT ![p] = "rename"]
    /\ UNCHANGED <<data, story, outcome, after>>

\* doc.build raises before the renderer has opened its output file
BuildFailsEarly(p) ==
    /\ pc[p] = "build"
    /\ builds' = [builds EXCEPT ![p] = @ + 1]
    /\ Finish(p, "error")
    /\ UNCHANGED <<data, story, files, writes, after>>

\* doc.build raises after the renderer has opened its output file
BuildFailsLate(p) ==
    /\ pc[p] = "build"
    /\ builds' = [builds EXCEPT ![p] = @ + 1]
    /\ files' = [files EXCEPT ![pdf_output_path(data)] = "partial"]
    /\ writes' = [writes EXCEPT ![p] = @ + 1]
    /\ Finish(p, "error")
    /\ UNCHANGED <<data, story, after>>

\* Lines 254-256 / 377-379
Rename(p) ==
    /\ pc[p] = "rename"
    /\ files' = os_rename(files, pdf_output_path(data), new_name(data))
    /\ writes' = [writes EXCEPT ![p] = @ + 1]
    /\ pc' = [pc EXCEPT ![p] = "copy"]
    /\ UNCHANGED <<data, story, outcome, builds, after>>

\* Lines 257-269 / 380-392
Copy(p) ==
    /\ pc[p] = "copy"
    /\ files' = [files EXCEPT ![json_path(data)] = "complete"]
    /\ writes' = [writes EXCEPT ![p] = @ + 1]
    /\ Finish(p, "ready")
    /\ UNCHANGED <<data, story, builds, after>>

Next ==
    \E p \in Procs :
        \/ Start(p)
        \/ Check(p)
        \/ Mkdir(p)
        \/ Layout(p)
        \/ BuildOk(p)
        \/ BuildFailsEarly(p)
        \/ BuildFailsLate(p)
        \/ Rename(p)
        \/ Copy(p)

Spec == Init /\ [][Next]_vars

\* The layout of one invocation over every export of LayoutExports
NextLayout == Start(1) \/ Check(1) \/ Mkdir(1) \/ Layout(1)

LayoutSpec == InitLayout /\ [][NextLayout]_vars

-----------------------------------------------------------------------------
(* Operators used to state the properties *)

Range(f) == { f[i] : i \in DOMAIN f }

KindBlocks(s, k) == SelectSeq(s, LAMBDA b : b.kind = k)

IsPrefix(a, b) == Len(a) <= Len(b) /\ SubSeq(b, 1, Len(a)) = a

Contains(s, sub) == \E k \in 0..(Len(s) - Len(sub)) : SubSeq(s, k + 1, k + Len(sub)) = sub

\* The invocation has laid out its story
LaidOut(p) == pc[p] \in {"build", "rename", "copy"} \/ outcome[p] = "ready"

Personal == data.type = "personal_chat"
Group    == data.type = "private_group"

DayLabels(ms) == [i \in 1..Len(ms) |-> format_date_inside(ms[i].date)]

\* The indices at which a new run of equal consecutive labels starts
RunStarts(ls) ==
    SelectSeq([i \in 1..Len(ls) |-> i], LAMBDA i : i = 1 \/ ls[i] # ls[i - 1])

\* The distinct labels in the order of their first occurrence
RECURSIVE FirstOccurrences(_)
FirstOccurrences(ls) ==
    IF ls = <<>> THEN <<>>
    ELSE LET front == SubSeq(ls, 1, Len(ls) - 1)
             last  == ls[Len(ls)]
         IN  IF last \in Range(front) THEN FirstOccurrences(front)
             ELSE Append(FirstOccurrences(front), last)

\* Equal labels are next to each other, as in a chronological export
Contiguous(ls) ==
    \A i, j, k \in 1..Len(ls) : (i < j /\ j < k /\ ls[i] = ls[k]) => ls[j] = ls[i]

SepText(label) == S_DASH_L \o label \o S_DASH_R

\* The sender the claims speak of: 'from', or 'actor' when 'from' is absent
SenderOf(m) == IF m.from # <<>> THEN m.from[1] ELSE m.actor[1]

\* The acting participant of a Group message: 'actor', else 'from'
ActorOf(m) == IF m.actor # <<>> THEN m.actor[1] ELSE m.from[1]

-----------------------------------------------------------------------------
(* C1 *)

\* C1 as stated: for every message sequence, in whatever order, the date
\* separators are exactly the distinct day-labels of the messages, one each,
\* in first-occurrence order.
C1_OnePerDistinctLabel ==
    LaidOut(1) =>
        LET ls   == DayLabels(data.messages)
            seps == KindBlocks(story[1], "DateSeparator")
        IN  /\ Len(seps) = Cardinality(Range(ls))
            /\ [k \in 1..Len(seps) |-> seps[k].par.text]
                 = [k \in 1..Len(FirstOccurrences(ls)) |-> SepText(FirstOccurrences(ls)[k])]

\* C1 amended: there is one date separator per maximal run of consecutive
\* messages with the same day-label, emitted in the iteration of the run's
\* first message and carrying its label; when equal labels are contiguous
\* this is one separator per distinct day-label, in first-occurrence order.
C1_OnePerRun ==
    LaidOut(1) =>
        LET ls     == DayLabels(data.messages)
            seps   == KindBlocks(story[1], "DateSeparator")
            starts == RunStarts(ls)
        IN  /\ Len(seps) = Len(starts)
            /\ \A k \in 1..Len(seps) :
                  /\ seps[k].of = starts[k]
                  /\ seps[k].par.text = SepText(ls[starts[k]])
            /\ Contiguous(ls) =>
                  /\ Len(seps) = Cardinality(Range(ls))
                  /\ [k \in 1..Len(seps) |-> seps[k].par.text]
                       = [k \in 1..Len(FirstOccurrences(ls)) |-> SepText(FirstOccurrences(ls)[k])]

\* Three messages on two days, the two of the same day next to each other,
\* laid out with two separators
C1_Witness ==
    /\ LaidOut(1)
    /\ Len(data.messages) = 3
    /\ Contiguous(DayLabels(data.messages))
    /\ Cardinality(Range(DayLabels(data.messages))) = 2
    /\ data.messages[1].date # data.messages[2].date
    /\ Len(KindBlocks(story[1], "DateSeparator")) = 2

-----------------------------------------------------------------------------
(* C2 *)

\* C2: in a Personal conversation every message body is tagged Partner when
\* the sender of its message equals the conversation's name and Self
\* otherwise, whatever the earlier messages and the content.
C2_RoleTagBySender ==
    (LaidOut(1) /\ Personal) =>
        \A k \in 1..Len(story[1]) :
            story[1][k].kind = "MessageBody" =>
                story[1][k].par.style =
                    IF SenderOf(data.messages[story[1][k].of]) = data.name
                    THEN "PartnerMessageStyle" ELSE "SelfMessageStyle"

\* A Personal story holding a Partner body and a Self body, one of them of
\* a service message, whose sender is its actor
C2_Witness ==
    /\ LaidOut(1) /\ Personal
    /\ \E j, k \in 1..Len(story[1]) :
          /\ story[1][j].kind = "MessageBody" /\ story[1][j].par.style = "PartnerMessageStyle"
          /\ story[1][k].kind = "MessageBody" /\ story[1][k].par.style = "SelfMessageStyle"
          /\ data.messages[story[1][j].of].from = <<>>
          /\ data.messages[story[1][k].of].from # <<>>

-----------------------------------------------------------------------------
(* C3 *)

\* C3: in a Group conversation each actor header carries the upper-cased
\* name of the acting participant of its message, and no two consecutive
\* actor headers are of the same participant.
C3_NoRepeatedActorHeader ==
    (LaidOut(1) /\ Group) =>
        LET hs == KindBlocks(story[1], "ActorHeader")
        IN  /\ \A k \in 1..Len(hs) :
                  hs[k].par.text = check_message(Upper(ActorOf(data.messages[hs[k].of])))
            /\ \A k \in 1..(Len(hs) - 1) :
                  ActorOf(data.messages[hs[k].of]) # ActorOf(data.messages[hs[k + 1].of])

\* Three ordinary Group messages of which two consecutive ones are of the
\* same participant: two headers for three messages
C3_Witness ==
    /\ LaidOut(1) /\ Group
    /\ Len(data.messages) = 3
    /\ \A i \in 1..3 : data.messages[i].type = "message"
    /\ \E i \in 1..2 : data.messages[i].from = data.messages[i + 1].from
    /\ Len(KindBlocks(story[1], "ActorHeader")) = 2

-----------------------------------------------------------------------------
(* C4 *)

\* C4: an invocation begun after another one on the same input has finished
\* with its PDF ready stops at the existence check: it never calls the
\* renderer, performs no filesystem operation, raises no error, reports that
\* the file exists, and the files the first run left stay as they are.
C4_SecondRunNoOp ==
    \A p \in Procs :
        after[p] =>
            /\ builds[p] = 0 /\ writes[p] = 0 /\ story[p] = <<>>
            /\ pc[p] \in {"check", "done"}
            /\ outcome[p] \in {"none", "exists"}
            /\ pc[p] = "done" => outcome[p] = "exists"
            /\ files[dir_path(data)] = "dir"
            /\ files[pdf_output_path(data)] = "complete"
            /\ files[json_path(data)] = "complete"

\* A second run that has finished by reporting the existing file
C4_Witness ==
    \E p, q \in Procs :
        /\ p # q /\ outcome[q] = "ready"
        /\ after[p] /\ pc[p] = "done" /\ outcome[p] = "exists"

-----------------------------------------------------------------------------
(* C5 *)

\* C5: an export whose type is neither personal_chat nor private_group is
\* rejected with an error, and no document is produced.
C5_UnsupportedKindRejected ==
    \A p \in Procs :
        (data.type \notin Supported /\ pc[p] = "done") =>
            /\ outcome[p] = "error"
            /\ builds[p] = 0 /\ writes[p] = 0

-----------------------------------------------------------------------------
(* C6 *)

\* C6: in a Group conversation a service message with action invite_members
\* or create_group emits exactly one notice, whose text contains the actor's
\* name upper-cased and every member's name upper-cased.
C6_NoticeNamesUpperCased ==
    (LaidOut(1) /\ Group) =>
        \A i \in 1..Len(data.messages) :
            LET m  == data.messages[i]
                ns == SelectSeq(story[1], LAMBDA b : b.kind = "ServiceNotice" /\ b.of = i)
            IN  (m.type = "service" /\ m.action[1] \in {"invite_members", "create_group"}) =>
                    /\ Len(ns) = 1
                    /\ Contains(ns[1].par.text, Upper(m.actor[1]))
                    /\ \A k \in 1..Len(m.members[1]) :
                          Contains(ns[1].par.text, Upper(m.members[1][k]))

-----------------------------------------------------------------------------
(* C7 *)

\* C7: in a Group conversation an ordinary message with a media_type of the
\* media_types table emits a body whose text begins with the bracketed tag
\* of that media type, followed by the caption; with an empty caption the
\* body is the tag alone.
C7_MediaTagPrefix ==
    (LaidOut(1) /\ Group) =>
        \A i \in 1..Len(data.messages) :
            LET m == data.messages[i]
            IN  (m.type = "message" /\ m.media_type # <<>>
                 /\ m.media_type[1] \in DOMAIN media_types) =>
                    \E k \in 1..Len(story[1]) :
                        /\ story[1][k].of = i /\ story[1][k].kind = "MessageBody"
                        /\ IsPrefix(media_types[m.media_type[1]], story[1][k].par.text)
                        /\ Contains(story[1][k].par.text, check_message(BodyText(m)))
                        /\ BodyText(m) = <<>> =>
                              story[1][k].par.text \in
                                  { media_types[m.media_type[1]],
                                    media_types[m.media_type[1]] \o <<" ">> }

-----------------------------------------------------------------------------
(* C8 *)

\* C8: after a run that failed during layout or rendering, the final name
\* holds nothing or a complete artifact, never a partial one.
C8_NoPartialArtifact ==
    \A p \in Procs :
        (outcome[p] = "error" /\ data.messages # <<>>) =>
            files[new_name(data)] \in {"absent", "complete"}

-----------------------------------------------------------------------------
(* C9 *)

\* C9: the existence check and the write are separate steps with nothing
\* atomic between them: passing the check only reads that the destination is
\* absent and changes no file, and the later build writes the destination
\* whatever it holds by then; so two invocations can both pass the check
\* before either has written, and then both call the renderer and both
\* write the same destination.
C9_CheckAndWriteSeparate ==
    [][ \A p \in Procs :
          /\ (pc[p] = "check" /\ pc'[p] = "mkdir") =>
                (files' = files /\ files[pdf_output_path(data)] = "absent")
          /\ (pc[p] = "build" /\ pc'[p] = "rename") =>
                (files'[pdf_output_path(data)] = "complete" /\ builds'[p] = builds[p] + 1)
      ]_vars

\* Both invocations passed the check, called the renderer and wrote the
\* destination
C9_Witness ==
    /\ \A p \in Procs : pc[p] = "rename" /\ builds[p] = 1 /\ ~after[p]
    /\ files[pdf_output_path(data)] = "complete"

-----------------------------------------------------------------------------
(* C10 *)

SpecialActions ==
    IF Personal THEN {"phone_call"}
    ELSE {"invite_members", "create_group", "join_group_by_link"}

\* Neither an ordinary message nor a specially rendered service action
Unrecognised(m) ==
    /\ m.type # "message"
    /\ ~(m.type = "service" /\ m.action # <<>> /\ m.action[1] \in SpecialActions)

\* C10: a message of an unrecognised kind still contributes, in the Personal
\* and in the Group layout, a text block carrying its normalized text.
C10_UnknownKindKept ==
    LaidOut(1) =>
        \A i \in 1..Len(data.messages) :
            Unrecognised(data.messages[i]) =>
                \E k \in 1..Len(story[1]) :
                    /\ story[1][k].of = i /\ story[1][k].kind = "MessageBody"
                    /\ story[1][k].par.text = check_message(BodyText(data.messages[i]))

-----------------------------------------------------------------------------
(* C11 *)

\* C11: in a Personal conversation every message contributes exactly one
\* message body, in message order, so there are as many bodies as messages;
\* a service phone_call message contributes only its "(CALL)" placeholder,
\* tagged by its actor.
C11_OneBodyPerMessage ==
    (LaidOut(1) /\ Personal) =>
        LET bodies == KindBlocks(story[1], "MessageBody")
        IN  /\ Len(bodies) = Len(data.messages)
            /\ \A i \in 1..Len(bodies) : bodies[i].of = i
            /\ \A i \in 1..Len(bodies) :
                  LET m == data.messages[i]
                  IN  (m.type = "service" /\ m.action[1] = "phone_call") =>
                          bodies[i].par = choose_role_tag(data, media_types["call"], m.actor[1])

====
